---- MODULE Spec2Model ----
(***************************************************************************)
(* A model of anguis.resources.SnakemakeResourcesManager                   *)
(* (src/anguis/resources.py): the resource definitions given at            *)
(* construction, the cache of resolved resources, and the five methods     *)
(* get_resource_value, allocate_resources, get_threads, get_mem and        *)
(* get_runtime.                                                            *)
(*                                                                         *)
(* Python values are tagged records [t, n, s]: t = "int" with the int in  *)
(* n, t = "str" with the str in s as a sequence of one-character strings   *)
(* ('4G' is <<"4", "G">>), t = "None" for None.  A mapping is a TLA+       *)
(* function whose DOMAIN is the set of its keys; an optional mapping is    *)
(* <<>> (None) or <<m>>.  A Python float is the exact rational [n, d]:     *)
(* the inputs below are chosen so that every                               *)
(* float the code computes is exactly representable (multipliers 1, 1.5    *)
(* and 2, small integers), where IEEE arithmetic and exact arithmetic      *)
(* agree.  The alphabet of the strings is the digits, ':', '-', '.', ' ',  *)
(* 'G', 'M', 'K' and a few lower-case letters; it has no '+', '_', 'e',    *)
(* 'n' or 'f', so int() and float() accept only plain decimal literals.    *)
(***************************************************************************)
EXTENDS Integers, Sequences, FiniteSets, TLC

VARIABLES
    defined_resources,          \* self.defined_resources
    presets,                    \* self.presets
    resources,                  \* self.resources (the defaultdict of defaultdict(int))
    mem_attempt_multiplier,     \* self.mem_attempt_multiplier, a rational [n, d]
    runtime_attempt_multiplier, \* self.runtime_attempt_multiplier
    presets_arg,                \* the presets argument of __init__
    override_arg,               \* the override argument of __init__
    call,                       \* the last method called, with its arguments
    ret,                        \* what that call returned (None when it raised)
    exc,                        \* the exception that call raised, or "none"
    ncalls                      \* number of method calls made so far

vars == <<defined_resources, presets, resources, mem_attempt_multiplier,
          runtime_attempt_multiplier, presets_arg, override_arg, call, ret,
          exc, ncalls>>

(***************************************************************************)
(* Bounds of the model.                                                    *)
(***************************************************************************)
MaxCalls == 3
MaxAttempt == 3

(***************************************************************************)
(* Python values.                                                          *)
(***************************************************************************)
None == [t |-> "None", n |-> 0, s |-> <<>>]
PyInt(n) == [t |-> "int", n |-> n, s |-> <<>>]
PyStr(s) == [t |-> "str", n |-> 0, s |-> s]
Ok(val) == [exc |-> "none", val |-> val]
Raise(e) == [exc |-> e, val |-> None]

Digits == {"0", "1", "2", "3", "4", "5", "6", "7", "8", "9"}
DigitVal(c) ==
    CASE c = "0" -> 0 [] c = "1" -> 1 [] c = "2" -> 2 [] c = "3" -> 3
      [] c = "4" -> 4 [] c = "5" -> 5 [] c = "6" -> 6 [] c = "7" -> 7
      [] c = "8" -> 8 [] c = "9" -> 9
DigitChar(n) ==
    CASE n = 0 -> "0" [] n = 1 -> "1" [] n = 2 -> "2" [] n = 3 -> "3"
      [] n = 4 -> "4" [] n = 5 -> "5" [] n = 6 -> "6" [] n = 7 -> "7"
      [] n = 8 -> "8" [] n = 9 -> "9"

RECURSIVE Pow(_, _)
Pow(b, k) == IF k <= 0 THEN 1 ELSE b * Pow(b, k - 1)

\* int(x) of a float x = n/d (d > 0): truncation toward zero.
Trunc(n, d) == IF n >= 0 THEN n \div d ELSE -((-n) \div d)

\* s.strip() for the one whitespace character of the alphabet.
RECURSIVE LStrip(_)
LStrip(s) == IF Len(s) > 0 /\ s[1] = " " THEN LStrip(Tail(s)) ELSE s
RECURSIVE RStrip(_)
RStrip(s) ==
    IF Len(s) > 0 /\ s[Len(s)] = " " THEN RStrip(SubSeq(s, 1, Len(s) - 1)) ELSE s
Strip(s) == RStrip(LStrip(s))

AllDigits(s) == Len(s) > 0 /\ \A i \in 1..Len(s) : s[i] \in Digits

RECURSIVE DigitsValue(_)
DigitsValue(s) ==
    IF Len(s) = 0 THEN 0
    ELSE 10 * DigitsValue(SubSeq(s, 1, Len(s) - 1)) + DigitVal(s[Len(s)])

\* str.isdigit()
isdigit(s) == AllDigits(s)

\* int(s) of a str: surrounding whitespace is ignored, one leading '-' is a
\* sign, the rest must be decimal digits; anything else is a ValueError.
IntOfStr(s) ==
    LET b == Strip(s)
        neg == Len(b) > 0 /\ b[1] = "-"
        body == IF neg THEN Tail(b) ELSE b
    IN  IF AllDigits(body)
        THEN Ok(IF neg THEN -DigitsValue(body) ELSE DigitsValue(body))
        ELSE Raise("ValueError")

\* int(value) of a value of the model: an int is itself, a str is parsed,
\* None is a TypeError.
int(value) ==
    CASE value.t = "int" -> Ok(value.n)
      [] value.t = "str" -> IntOfStr(value.s)
      [] OTHER -> Raise("TypeError")

\* float(s) of a str: [sign] digits [. digits] with a digit on one side of
\* the point at least; the result is the rational [n, d].
FloatOfStr(s) ==
    LET b == Strip(s)
        neg == Len(b) > 0 /\ b[1] = "-"
        body == IF neg THEN Tail(b) ELSE b
        dots == {i \in 1..Len(body) : body[i] = "."}
        ip == IF dots = {} THEN body
              ELSE SubSeq(body, 1, (CHOOSE i \in dots : TRUE) - 1)
        fp == IF dots = {} THEN <<>>
              ELSE SubSeq(body, (CHOOSE i \in dots : TRUE) + 1, Len(body))
        wellformed == /\ Cardinality(dots) <= 1
                      /\ Len(ip) + Len(fp) > 0
                      /\ \A i \in 1..Len(ip) : ip[i] \in Digits
                      /\ \A i \in 1..Len(fp) : fp[i] \in Digits
        mag == DigitsValue(ip) * Pow(10, Len(fp)) + DigitsValue(fp)
    IN  IF wellformed
        THEN Ok([n |-> IF neg THEN -mag ELSE mag, d |-> Pow(10, Len(fp))])
        ELSE Raise("ValueError")

\* str(n) of a non-negative int.
RECURSIVE NatStr(_)
NatStr(n) ==
    IF n < 10 THEN <<DigitChar(n)>> ELSE Append(NatStr(n \div 10), DigitChar(n % 10))

\* The digits after the point of r/d (0 <= r < d), for a d whose prime
\* factors are 2 and 5: the expansion ends.
RECURSIVE FracDigits(_, _)
FracDigits(r, d) ==
    IF r = 0 THEN <<>>
    ELSE <<DigitChar((10 * r) \div d)>> \o FracDigits((10 * r) % d, d)

\* f'{x}' of a float x = n/d: repr(x), which for the magnitudes of the model
\* is the positional form with at least one digit after the point.
FloatStr(n, d) ==
    LET m == IF n < 0 THEN -n ELSE n
        frac == FracDigits(m % d, d)
    IN  (IF n < 0 THEN <<"-">> ELSE <<>>)
        \o NatStr(m \div d) \o <<".">>
        \o (IF frac = <<>> THEN <<"0">> ELSE frac)

\* re.split(':|-', s): the pieces of s between its ':' and '-' characters.
RECURSIVE resplit(_)
resplit(s) ==
    LET seps == {i \in 1..Len(s) : s[i] \in {":", "-"}}
    IN  IF seps = {} THEN <<s>>
        ELSE LET i == CHOOSE k \in seps : \A j \in seps : k <= j
             IN  <<SubSeq(s, 1, i - 1)>> \o resplit(SubSeq(s, i + 1, Len(s)))

(***************************************************************************)
(* Mappings.                                                               *)
(***************************************************************************)
\* An optional mapping argument: <<>> is None, <<m>> is the mapping m.
NoDict == <<>>
PyDict(m) == <<m>>
EmptyMap == [k \in {} |-> None]
Put(m, k, val) == [x \in DOMAIN m \cup {k} |-> IF x = k THEN val ELSE m[x]]

\* The strings the constructor's keyword arguments default to (line 20).
default_str == "default"
threads_str == "threads"
memory_str == "mem_mb"
runtime_str == "runtime_s"
ResourceKeys == {threads_str, memory_str, runtime_str}

\* The class attribute default_resources (lines 14-16).
default_resources ==
    [threads |-> PyInt(1), mem_mb |-> PyInt(2000), runtime_s |-> PyInt(3600)]

\* The names bound at module level in resources.py: its three imports and
\* its one class.  The methods are attributes of the class, not globals.
ModuleGlobals == {"collections", "re", "yaml", "SnakemakeResourcesManager"}
LookupGlobal(name) == IF name \in ModuleGlobals THEN Ok(None) ELSE Raise("NameError")

(***************************************************************************)
(* __init__ (lines 18-39).  The presets and override arguments are not     *)
(* stored: self.presets is set to None and override is never read.         *)
(***************************************************************************)
init_defined_resources(resources_in) ==
    LET given == IF resources_in = NoDict THEN EmptyMap ELSE resources_in[1]
    IN  IF default_str \notin DOMAIN given
        THEN Put(given, default_str,
                 [k \in ResourceKeys |->
                    IF k = threads_str THEN default_resources["threads"]
                    ELSE IF k = memory_str THEN default_resources["mem_mb"]
                    ELSE default_resources["runtime_s"]])
        ELSE given

init_presets(presets_in) == NoDict

\* self.resources = defaultdict(lambda: defaultdict(int)), empty.
init_resources == EmptyMap

(***************************************************************************)
(* self.resources[rule][key] read through the two defaultdicts: a missing  *)
(* rule gets an empty inner defaultdict(int), a missing key gets int() = 0,*)
(* both are stored, and no KeyError is raised.                             *)
(***************************************************************************)
resources_getitem(res, rule, key) ==
    LET inner == IF rule \in DOMAIN res THEN res[rule] ELSE EmptyMap
        val == IF key \in DOMAIN inner THEN inner[key] ELSE PyInt(0)
    IN  [exc |-> "none", val |-> val, resources |-> Put(res, rule, Put(inner, key, val))]

\* The read of lines 90-93, 101-104 and 119-122: try self.resources[rule][key],
\* and on KeyError self.resources[default][key].
resources_lookup(res, rule, key) ==
    LET got == resources_getitem(res, rule, key)
    IN  IF got.exc = "KeyError"
        THEN resources_getitem(got.resources, default_str, key)
        ELSE got

\* self.resources[rule][key] = value
resources_setitem(res, rule, key, value) ==
    LET inner == IF rule \in DOMAIN res THEN res[rule] ELSE EmptyMap
    IN  Put(res, rule, Put(inner, key, value))

(***************************************************************************)
(* get_resource_value (lines 41-60).  Each step yields [exc, val]; a       *)
(* KeyError raised inside the outer try (lines 47-56) is handled by the    *)
(* default fallback of line 58, whose own KeyError propagates.  The method *)
(* has no return statement: it returns None.                               *)
(***************************************************************************)
\* line 53: self.presets[resource][value]
preset_lookup(pre, resource, value) ==
    IF pre = NoDict THEN Raise("TypeError")
    ELSE IF resource \notin DOMAIN pre[1] THEN Raise("KeyError")
    ELSE IF value.s \notin DOMAIN pre[1][resource] THEN Raise("KeyError")
    ELSE Ok(pre[1][resource][value.s])

\* lines 47-56: the body of the outer try
defined_value(defined, pre, rule, resource) ==
    IF rule \notin DOMAIN defined THEN Raise("KeyError")
    ELSE IF resource \notin DOMAIN defined[rule] THEN Raise("KeyError")
    ELSE LET value == defined[rule][resource]
             asint == int(value)
         IN  IF asint.exc = "none" THEN Ok(PyInt(asint.val))
             ELSE IF asint.exc = "ValueError" THEN preset_lookup(pre, resource, value)
             ELSE asint

\* lines 57-59: the except KeyError clause
default_value(defined, resource) ==
    IF resource \notin DOMAIN defined[default_str] THEN Raise("KeyError")
    ELSE Ok(defined[default_str][resource])

get_resource_value(defined, pre, res, rule, resource) ==
    LET first == defined_value(defined, pre, rule, resource)
        value == IF first.exc = "KeyError" THEN default_value(defined, resource) ELSE first
    IN  IF value.exc = "none"
        THEN [exc |-> "none", val |-> None,
              resources |-> resources_setitem(res, rule, resource, value.val)]
        ELSE [exc |-> value.exc, val |-> None, resources |-> res]

(***************************************************************************)
(* allocate_resources (lines 62-84).  Line 67 evaluates the bare name      *)
(* get_resource_value, which is no global of the module: the NameError is  *)
(* raised while the right-hand side is built, before anything is stored,   *)
(* and lines 70-84 (the loop over the rules and the overrides) never run.  *)
(***************************************************************************)
allocate_resources(res) ==
    [exc |-> LookupGlobal("get_resource_value").exc, val |-> None, resources |-> res]

(***************************************************************************)
(* get_threads (lines 86-94).                                              *)
(***************************************************************************)
get_threads(res, rule) == resources_lookup(res, rule, threads_str)

(***************************************************************************)
(* get_mem (lines 96-112).  mult is self.mem_attempt_multiplier as the     *)
(* rational [n, d].                                                        *)
(***************************************************************************)
\* A variant that counts the first attempt as a retry.
attempt_exponent_from_one(attempt) == attempt

\* The exponent of lines 106, 108 and 110: attempt - 1.
attempt_exponent(attempt) == attempt - 1

\* A variant that rounds to the nearest int instead of truncating.
scaled_int_rounded(x, mult, attempt) ==
    (2 * x * Pow(mult.n, attempt_exponent(attempt)) + Pow(mult.d, attempt_exponent(attempt)))
        \div (2 * Pow(mult.d, attempt_exponent(attempt)))

\* lines 106 and 108: int(x * (self.mem_attempt_multiplier ** (attempt - 1)))
scaled_int(x, mult, attempt) ==
    Trunc(x * Pow(mult.n, attempt_exponent(attempt)),
          Pow(mult.d, attempt_exponent(attempt)))

\* lines 110-111: tmp = float(mem_mb[:-1]) * multiplier ** (attempt - 1),
\* then f'{tmp}{mem_mb[-1]}'
scaled_suffixed(s, mult, attempt) ==
    LET f == FloatOfStr(SubSeq(s, 1, Len(s) - 1))
    IN  IF f.exc # "none" THEN f
        ELSE Ok(PyStr(FloatStr(f.val.n * Pow(mult.n, attempt_exponent(attempt)),
                               f.val.d * Pow(mult.d, attempt_exponent(attempt)))
                      \o <<s[Len(s)]>>))

\* lines 105-112, on the value read from self.resources
mem_result(mem_mb, mult, attempt) ==
    CASE mem_mb.t = "int" -> Ok(PyInt(scaled_int(mem_mb.n, mult, attempt)))
      [] mem_mb.t = "str" ->
            IF isdigit(mem_mb.s)
            THEN Ok(PyInt(scaled_int(DigitsValue(mem_mb.s), mult, attempt)))
            ELSE IF Len(mem_mb.s) = 0 THEN Raise("IndexError")
            ELSE IF mem_mb.s[Len(mem_mb.s)] \in {"G", "M", "K"}
                 THEN scaled_suffixed(mem_mb.s, mult, attempt)
            ELSE Ok(mem_mb)
      [] OTHER -> Raise("AttributeError")

get_mem(res, mult, rule, attempt) ==
    LET got == resources_lookup(res, rule, memory_str)
        out == mem_result(got.val, mult, attempt)
    IN  [exc |-> out.exc, val |-> out.val, resources |-> got.resources]

(***************************************************************************)
(* get_runtime (lines 114-133).                                            *)
(***************************************************************************)
\* line 131: the time substituted for an invalid runtime string
invalid_runtime_time == 3600

\* A variant that takes a string of three fields as hours, minutes and
\* seconds of day 0.
runtime_fields_optional_days(s) ==
    LET pieces == IF Len(resplit(s)) = 3 THEN <<<<"0">>>> \o resplit(s) ELSE resplit(s)
    IN  IF Len(pieces) = 4 /\ \A i \in 1..4 : IntOfStr(pieces[i]).exc = "none"
        THEN Ok([i \in 1..4 |-> IntOfStr(pieces[i]).val])
        ELSE Raise("ValueError")

\* line 127: d, h, m, s = (int(f) for f in re.split(':|-', runtime)).  A
\* piece that is no int and a number of pieces other than four both raise
\* ValueError.
runtime_fields(s) ==
    LET pieces == resplit(s)
    IN  IF Len(pieces) = 4 /\ \A i \in 1..4 : IntOfStr(pieces[i]).exc = "none"
        THEN Ok([i \in 1..4 |-> IntOfStr(pieces[i]).val])
        ELSE Raise("ValueError")

\* A variant that leaves the days out of the sum.
runtime_seconds_without_days(f) == ((f[2] * 60) + f[3]) * 60 + f[4]

\* line 128: time = ((((d * 24) + h) * 60) + m) * 60 + s
runtime_seconds(f) == ((((f[1] * 24) + f[2]) * 60) + f[3]) * 60 + f[4]

\* lines 123-131: the unscaled time
runtime_time(runtime) ==
    CASE runtime.t = "int" -> Ok(runtime.n)
      [] runtime.t = "str" ->
            LET f == runtime_fields(runtime.s)
            IN  IF f.exc = "ValueError" THEN Ok(invalid_runtime_time)
                ELSE Ok(runtime_seconds(f.val))
      [] OTHER -> Raise("TypeError")

\* A variant with the sign of the attempt term flipped.
runtime_scaled_down(time, attempt) == Trunc(time * (2 - (attempt - 1)), 2)

\* line 132: int(time * (1 + (attempt - 1) / 2))
runtime_scaled(time, attempt) == Trunc(time * (2 + (attempt - 1)), 2)

get_runtime(res, rule, attempt) ==
    LET got == resources_lookup(res, rule, runtime_str)
        time == runtime_time(got.val)
    IN  IF time.exc = "none"
        THEN [exc |-> "none", val |-> PyInt(runtime_scaled(time.val, attempt)),
              resources |-> got.resources]
        ELSE [exc |-> time.exc, val |-> None, resources |-> got.resources]

(***************************************************************************)
(* The calls a client makes: one action per method.                        *)
(***************************************************************************)
QueryRules == {default_str, "a"}

Finish(op, rule, resource, attempt, out) ==
    /\ ncalls < MaxCalls
    /\ ncalls' = ncalls + 1
    /\ call' = [op |-> op, rule |-> rule, resource |-> resource, attempt |-> attempt]
    /\ ret' = out.val
    /\ exc' = out.exc
    /\ resources' = out.resources
    /\ UNCHANGED <<defined_resources, presets, mem_attempt_multiplier,
                   runtime_attempt_multiplier, presets_arg, override_arg>>

Call_get_resource_value(rule, resource) ==
    Finish("get_resource_value", rule, resource, 0,
           get_resource_value(defined_resources, presets, resources, rule, resource))

Call_allocate_resources ==
    Finish("allocate_resources", "", "", 0, allocate_resources(resources))

Call_get_threads(rule) ==
    Finish("get_threads", rule, "", 0, get_threads(resources, rule))

Call_get_mem(rule, attempt) ==
    Finish("get_mem", rule, "", attempt,
           get_mem(resources, mem_attempt_multiplier, rule, attempt))

Call_get_runtime(rule, attempt) ==
    Finish("get_runtime", rule, "", attempt, get_runtime(resources, rule, attempt))

Next ==
    \/ \E rule \in QueryRules, resource \in ResourceKeys :
          Call_get_resource_value(rule, resource)
    \/ Call_allocate_resources
    \/ \E rule \in QueryRules : Call_get_threads(rule)
    \/ \E rule \in QueryRules, attempt \in 1..MaxAttempt : Call_get_mem(rule, attempt)
    \/ \E rule \in QueryRules, attempt \in 1..MaxAttempt : Call_get_runtime(rule, attempt)

(***************************************************************************)
(* The state after construction, for arguments drawn from the given sets.  *)
(***************************************************************************)
Constructed(ResArgs, PresetArgs, OverrideArgs, MemMults) ==
    /\ \E r \in ResArgs : defined_resources = init_defined_resources(r)
    /\ presets_arg \in PresetArgs
    /\ presets = init_presets(presets_arg)
    /\ override_arg \in OverrideArgs
    /\ mem_attempt_multiplier \in MemMults
    /\ runtime_attempt_multiplier = [n |-> 1, d |-> 1]
    /\ resources = init_resources
    /\ call = [op |-> "__init__", rule |-> "", resource |-> "", attempt |-> 0]
    /\ ret = None
    /\ exc = "none"
    /\ ncalls = 0

\* An optional entry is <<>> (absent) or <<entry>>.
Opt(S) == {<<>>} \cup {<<e>> : e \in S}
Restrict(f, S) == [k \in S |-> f[k]]
RulesMap(d, a) ==
    (IF d = <<>> THEN EmptyMap ELSE (default_str :> d[1]))
    @@ (IF a = <<>> THEN EmptyMap ELSE ("a" :> a[1]))
ResourceArgs(DefaultEntries, RuleEntries) ==
    {NoDict} \cup {PyDict(RulesMap(d, a)) : d \in Opt(DefaultEntries), a \in Opt(RuleEntries)}

s_big == <<"b", "i", "g">>
s_huge == <<"h", "u", "g", "e">>
s_6 == <<"6">>

\* Definitions whose default entry holds any subset of the three keys, and
\* whose rule "a" is absent, empty, numeric, or names presets.
FullDefault == [threads |-> PyInt(2), mem_mb |-> PyInt(3), runtime_s |-> PyInt(5)]
PartialDefaults == {Restrict(FullDefault, S) : S \in SUBSET ResourceKeys}
RuleEntriesG ==
    { EmptyMap,
      [threads |-> PyInt(4), mem_mb |-> PyStr(s_6), runtime_s |-> PyInt(7)],
      [threads |-> PyStr(s_big), mem_mb |-> PyStr(s_big)],
      [mem_mb |-> PyStr(s_huge)],
      [runtime_s |-> PyStr(s_big)] }
SomePresets ==
    PyDict([threads |-> (s_big :> PyInt(8)), mem_mb |-> (s_big :> PyInt(8000))])
SomeOverrides ==
    PyDict(("a" :> [mem_mb |-> PyInt(9), threads |-> PyStr(s_big)]))
DefaultMult == [n |-> 3, d |-> 2]

Init ==
    Constructed(ResourceArgs(PartialDefaults, RuleEntriesG),
                {NoDict, SomePresets}, {NoDict, SomeOverrides}, {DefaultMult})

Spec == Init /\ [][Next]_vars

(***************************************************************************)
(* Memory values of every kind get_mem distinguishes, under each of three  *)
(* multipliers.  A string reaches self.resources through the default       *)
(* fallback of get_resource_value, which stores the default entry's value  *)
(* as written.                                                             *)
(***************************************************************************)
MemoryValues ==
    { PyInt(0), PyInt(1), PyInt(3), PyInt(5), PyInt(2001),
      PyStr(<<"4">>), PyStr(<<"2", "5">>),
      PyStr(<<"4", "G">>), PyStr(<<"7", "K">>), PyStr(<<"1", "2", "M">>),
      PyStr(<<"4", ".", "5", "G">>), PyStr(<<"x", "G">>), PyStr(<<"G">>),
      PyStr(<<"b", "o", "g", "u", "s">>), PyStr(<<>>) }
MemoryDefaults ==
    {[threads |-> PyInt(2), mem_mb |-> m, runtime_s |-> PyInt(5)] : m \in MemoryValues}
RuleEntriesM == {[threads |-> PyInt(4), mem_mb |-> PyInt(7), runtime_s |-> PyInt(9)]}
Multipliers == {[n |-> 1, d |-> 1], [n |-> 3, d |-> 2], [n |-> 2, d |-> 1]}

InitMem ==
    Constructed(ResourceArgs(MemoryDefaults, RuleEntriesM),
                {NoDict}, {NoDict}, Multipliers)

SpecMem == InitMem /\ [][Next]_vars

(***************************************************************************)
(* Runtime values: ints, and strings with and without four integer fields. *)
(***************************************************************************)
RuntimeValues ==
    { PyInt(5), PyInt(3600),
      PyStr(<<"1", "-", "0", "2", ":", "3", "0", ":", "0", "0">>),
      PyStr(<<"0", "-", "0", "0", ":", "0", "0", ":", "0", "7">>),
      PyStr(<<"2", "-", "3", ":", "4", ":", "5">>),
      PyStr(<<"0", "2", ":", "3", "0", ":", "0", "0">>),
      PyStr(<<"1", ":", "0", "2", ":", "3", "0", ":", "0", "0">>),
      PyStr(<<"1", "-", "2", "-", "3", "-", "4">>),
      PyStr(<<" ", "1", "-", "0", "2", ":", "3", "0", ":", "0", "0">>),
      PyStr(<<"1", "-", "0", "2", ":", "3", "0", ":", "0", "0", ":", "5">>),
      PyStr(<<"1", "-", "0", "2", ":", "x", "0", ":", "0", "0">>),
      PyStr(<<"-", "1", ":", "2", ":", "3", ":", "4">>),
      PyStr(<<"7", "2", "0", "0">>),
      PyStr(<<"b", "o", "g", "u", "s">>), PyStr(<<>>) }
RuntimeDefaults ==
    {[threads |-> PyInt(2), mem_mb |-> PyInt(3), runtime_s |-> r] : r \in RuntimeValues}
RuleEntriesR == {EmptyMap, [runtime_s |-> PyInt(9)]}

InitRuntime ==
    Constructed(ResourceArgs(RuntimeDefaults, RuleEntriesR),
                {NoDict}, {NoDict}, {DefaultMult})

SpecRuntime == InitRuntime /\ [][Next]_vars

(***************************************************************************)
(* Vocabulary of the properties.                                           *)
(***************************************************************************)
\* The value self.resources holds for (rule, key), if it holds one.
Resolved(rule, key) == rule \in DOMAIN resources /\ key \in DOMAIN resources[rule]
Returned(op) == call.op = op /\ exc = "none"

\* A resource value written as a number: an int or an all-digit string.
IsNumeric(value) == value.t = "int" \/ (value.t = "str" /\ AllDigits(value.s))
NumericValue(value) == IF value.t = "int" THEN value.n ELSE DigitsValue(value.s)

\* C1: every rule that is no key of the resource definitions resolves to the
\* default entry: get_threads(rule), get_mem(rule, 1) and get_runtime(rule, 1)
\* return the default entry's threads, memory and runtime, in every state
\* (here with a default entry that holds all three keys as ints).
C1_AbsentRuleGetsDefault ==
    ( /\ call.rule \in QueryRules
      /\ call.rule \notin DOMAIN defined_resources
      /\ ResourceKeys \subseteq DOMAIN defined_resources[default_str] )
    => /\ call.op = "get_threads"
            => exc = "none" /\ ret = defined_resources[default_str][threads_str]
       /\ (call.op = "get_mem" /\ call.attempt = 1)
            => exc = "none" /\ ret = defined_resources[default_str][memory_str]
       /\ (call.op = "get_runtime" /\ call.attempt = 1)
            => exc = "none" /\ ret = defined_resources[default_str][runtime_str]

\* The literal an override value stands for: the int it is or is written
\* as, else the preset of that name given at construction.
OverrideResolvable(key, value) ==
    \/ int(value).exc = "none"
    \/ /\ value.t = "str"
       /\ presets_arg # NoDict
       /\ key \in DOMAIN presets_arg[1]
       /\ value.s \in DOMAIN presets_arg[1][key]
OverrideLiteral(key, value) ==
    IF int(value).exc = "none" THEN PyInt(int(value).val)
    ELSE presets_arg[1][key][value.s]

\* C2: once allocate_resources() has run on a resolver constructed with
\* Overrides, it has completed and, for every triple of Overrides with a
\* valid rule and resource key, the resolved resources hold the resolved
\* override value.
C2_OverridesApplied ==
    ( /\ call.op = "allocate_resources"
      /\ override_arg # NoDict
      /\ \E rule \in DOMAIN override_arg[1] \cap DOMAIN defined_resources :
            \E key \in DOMAIN override_arg[1][rule] \cap ResourceKeys :
               OverrideResolvable(key, override_arg[1][rule][key]) )
    => /\ exc = "none"
       /\ \A rule \in DOMAIN override_arg[1] :
            \A key \in DOMAIN override_arg[1][rule] :
               ( /\ rule \in DOMAIN defined_resources
                 /\ key \in ResourceKeys
                 /\ OverrideResolvable(key, override_arg[1][rule][key]) )
               => /\ Resolved(rule, key)
                  /\ resources[rule][key] = OverrideLiteral(key, override_arg[1][rule][key])

\* C3: get_resource_value(rule, key) on a definition that is a non-numeric
\* string naming an entry of the Presets given at construction stores
\* Presets[key][name] in the resolved resources.
C3_PresetResolved ==
    ( /\ call.op = "get_resource_value"
      /\ call.rule \in DOMAIN defined_resources
      /\ call.resource \in DOMAIN defined_resources[call.rule]
      /\ defined_resources[call.rule][call.resource].t = "str"
      /\ int(defined_resources[call.rule][call.resource]).exc # "none"
      /\ presets_arg # NoDict
      /\ call.resource \in DOMAIN presets_arg[1]
      /\ defined_resources[call.rule][call.resource].s
            \in DOMAIN presets_arg[1][call.resource] )
    => /\ exc = "none"
       /\ Resolved(call.rule, call.resource)
       /\ resources[call.rule][call.resource]
            = presets_arg[1][call.resource][defined_resources[call.rule][call.resource].s]

\* C9: after construction the default entry holds a value for each of
\* threads, mem_mb and runtime_s, so the default fallback of
\* get_resource_value succeeds for every rule and resource key.
C9_DefaultEntryComplete ==
    /\ ResourceKeys \subseteq DOMAIN defined_resources[default_str]
    /\ ( /\ call.op = "get_resource_value"
         /\ \/ call.rule \notin DOMAIN defined_resources
            \/ call.resource \notin DOMAIN defined_resources[call.rule] )
       => exc = "none"

\* C10: a call of get_resource_value(rule, key) returns the value held in
\* the resolved resources for (rule, key), and a call repeating the one
\* before it leaves the resolved resources as that one left them.
C10_IdempotentReturnsCached ==
    [][ (call'.op = "get_resource_value" /\ exc' = "none" /\ ncalls' = ncalls + 1)
        => /\ ret' = resources'[call'.rule][call'.resource]
           /\ (call = call' /\ exc = "none") => resources' = resources ]_vars

(***************************************************************************)
(* Properties of get_mem.                                                  *)
(***************************************************************************)
MemValue == resources[call.rule][memory_str]
IsSuffixed(value) ==
    value.t = "str" /\ Len(value.s) > 0 /\ value.s[Len(value.s)] \in {"G", "M", "K"}
NumericPart(value) == SubSeq(value.s, 1, Len(value.s) - 1)

\* C4 as stated: get_mem(rule, 1) yields the resolved memory value exactly,
\* unscaled and unchanged in form, be it an int, a numeric string or a
\* size-suffixed string.
C4_AttemptOneExact ==
    ( /\ call.op = "get_mem"
      /\ call.attempt = 1
      /\ MemValue.t = "int" \/ IsNumeric(MemValue) \/ IsSuffixed(MemValue) )
    => exc = "none" /\ ret = MemValue

\* C4, amended: get_mem(rule, 1) yields the resolved memory value unscaled:
\* an int as it is, an all-digit string as the int it denotes, and a
\* size-suffixed string whose numeric part is all digits as the string of
\* that number written as a float ('4G' gives '4.0G') and the same suffix.
C4_AttemptOneUnscaled ==
    (call.op = "get_mem" /\ call.attempt = 1)
    => /\ MemValue.t = "int" => exc = "none" /\ ret = MemValue
       /\ (MemValue.t = "str" /\ AllDigits(MemValue.s))
            => exc = "none" /\ ret = PyInt(DigitsValue(MemValue.s))
       /\ (IsSuffixed(MemValue) /\ AllDigits(NumericPart(MemValue)))
            => /\ exc = "none"
               /\ ret = PyStr(NatStr(DigitsValue(NumericPart(MemValue)))
                              \o <<".", "0">> \o <<MemValue.s[Len(MemValue.s)]>>)

\* get_mem(rule, 1) of the resolved string '4G' has returned '4.0G'.
C4_Witness ==
    /\ Returned("get_mem")
    /\ call.attempt = 1
    /\ mem_attempt_multiplier = DefaultMult
    /\ MemValue = PyStr(<<"4", "G">>)
    /\ ret = PyStr(<<"4", ".", "0", "G">>)

\* round(n / d) for n >= 0, d > 0, ties to the even neighbour.
RoundHalfEven(n, d) ==
    LET q == n \div d
        r == n % d
    IN  IF 2 * r < d THEN q
        ELSE IF 2 * r > d THEN q + 1
        ELSE IF q % 2 = 0 THEN q ELSE q + 1

\* C5 as stated: for a numeric resolved memory baseMemory and the default
\* multiplier 1.5, get_mem(rule, attempt) = round(baseMemory * 1.5^(attempt-1)).
C5_ScaledRounded ==
    (call.op = "get_mem" /\ mem_attempt_multiplier = DefaultMult /\ IsNumeric(MemValue))
    => /\ exc = "none"
       /\ ret = PyInt(RoundHalfEven(NumericValue(MemValue) * Pow(3, call.attempt - 1),
                                    Pow(2, call.attempt - 1)))

\* C5, amended: for a numeric resolved memory baseMemory and the default
\* multiplier 1.5, get_mem(rule, attempt) is baseMemory * 1.5^(attempt-1)
\* rounded down to an int: the r with r <= baseMemory * 1.5^(attempt-1) < r + 1.
C5_ScaledTruncated ==
    (call.op = "get_mem" /\ mem_attempt_multiplier = DefaultMult /\ IsNumeric(MemValue))
    => /\ exc = "none"
       /\ ret.t = "int"
       /\ ret.n * Pow(2, call.attempt - 1) <= NumericValue(MemValue) * Pow(3, call.attempt - 1)
       /\ NumericValue(MemValue) * Pow(3, call.attempt - 1) < (ret.n + 1) * Pow(2, call.attempt - 1)

\* get_mem has scaled a numeric memory by 1.5^(attempt-1) to a fraction.
C5_Witness ==
    /\ Returned("get_mem")
    /\ mem_attempt_multiplier = DefaultMult
    /\ IsNumeric(MemValue)
    /\ call.attempt >= 2
    /\ (NumericValue(MemValue) * Pow(3, call.attempt - 1)) % Pow(2, call.attempt - 1) # 0

\* C8: for a numeric resolved memory and runtime, every attempt and every
\* memory multiplier >= 1, get_mem(rule, attempt) >= get_mem(rule, 1) and
\* get_runtime(rule, attempt) >= get_runtime(rule, 1).
C8_ScalingNeverLowers ==
    /\ (Returned("get_mem") /\ IsNumeric(MemValue))
         => ret.n >= get_mem(resources, mem_attempt_multiplier, call.rule, 1).val.n
    /\ (Returned("get_runtime") /\ resources[call.rule][runtime_str].t = "int")
         => ret.n >= get_runtime(resources, call.rule, 1).val.n

\* A retry of get_runtime has returned more than the first attempt, for a
\* rule whose resolved memory grows with the attempt too.
C8_Witness ==
    /\ Returned("get_runtime")
    /\ resources[call.rule][runtime_str].t = "int"
    /\ call.attempt >= 2
    /\ ret.n > get_runtime(resources, call.rule, 1).val.n
    /\ Resolved(call.rule, memory_str)
    /\ IsNumeric(MemValue)
    /\ get_mem(resources, mem_attempt_multiplier, call.rule, 2).val.n
         > get_mem(resources, mem_attempt_multiplier, call.rule, 1).val.n

(***************************************************************************)
(* Properties of get_runtime.                                              *)
(***************************************************************************)
RuntimeValue == resources[call.rule][runtime_str]

\* s is D-H:M:S: four groups of digits, the day set off by '-'.
DayTimeCuts(s) ==
    {c \in (1..Len(s)) \X (1..Len(s)) \X (1..Len(s)) :
        /\ c[1] < c[2] /\ c[2] < c[3]
        /\ s[c[1]] = "-" /\ s[c[2]] = ":" /\ s[c[3]] = ":"
        /\ AllDigits(SubSeq(s, 1, c[1] - 1))
        /\ AllDigits(SubSeq(s, c[1] + 1, c[2] - 1))
        /\ AllDigits(SubSeq(s, c[2] + 1, c[3] - 1))
        /\ AllDigits(SubSeq(s, c[3] + 1, Len(s)))}
IsDayTime(s) == DayTimeCuts(s) # {}
DayTimeSeconds(s) ==
    LET c == CHOOSE x \in DayTimeCuts(s) : TRUE
    IN  DigitsValue(SubSeq(s, 1, c[1] - 1)) * 86400
        + DigitsValue(SubSeq(s, c[1] + 1, c[2] - 1)) * 3600
        + DigitsValue(SubSeq(s, c[2] + 1, c[3] - 1)) * 60
        + DigitsValue(SubSeq(s, c[3] + 1, Len(s)))

\* s is H:M:S: three groups of digits, no day.
TimeCuts(s) ==
    {c \in (1..Len(s)) \X (1..Len(s)) :
        /\ c[1] < c[2]
        /\ s[c[1]] = ":" /\ s[c[2]] = ":"
        /\ AllDigits(SubSeq(s, 1, c[1] - 1))
        /\ AllDigits(SubSeq(s, c[1] + 1, c[2] - 1))
        /\ AllDigits(SubSeq(s, c[2] + 1, Len(s)))}
IsTime(s) == TimeCuts(s) # {}
TimeSeconds(s) ==
    LET c == CHOOSE x \in TimeCuts(s) : TRUE
    IN  DigitsValue(SubSeq(s, 1, c[1] - 1)) * 3600
        + DigitsValue(SubSeq(s, c[1] + 1, c[2] - 1)) * 60
        + DigitsValue(SubSeq(s, c[2] + 1, Len(s)))

\* s has exactly three separators (each ':' or '-') and the four pieces
\* around them are digits, spaces around them aside.
HasFourIntFields(s) ==
    \E i, j, k \in 1..Len(s) :
        /\ i < j /\ j < k
        /\ \A x \in 1..Len(s) : s[x] \in {":", "-"} <=> x \in {i, j, k}
        /\ AllDigits(Strip(SubSeq(s, 1, i - 1)))
        /\ AllDigits(Strip(SubSeq(s, i + 1, j - 1)))
        /\ AllDigits(Strip(SubSeq(s, j + 1, k - 1)))
        /\ AllDigits(Strip(SubSeq(s, k + 1, Len(s))))

\* C6 as stated: for a resolved runtime string D-HH:MM:SS, or HH:MM:SS with
\* the day left out, get_runtime(rule, 1) returns
\* D*86400 + HH*3600 + MM*60 + SS, with D = 0 when the day is left out.
C6_ParsesOptionalDay ==
    (call.op = "get_runtime" /\ call.attempt = 1 /\ RuntimeValue.t = "str")
    => /\ IsDayTime(RuntimeValue.s)
            => exc = "none" /\ ret = PyInt(DayTimeSeconds(RuntimeValue.s))
       /\ IsTime(RuntimeValue.s)
            => exc = "none" /\ ret = PyInt(TimeSeconds(RuntimeValue.s))

\* C6, amended: for a resolved runtime string D-HH:MM:SS with the day part
\* present, get_runtime(rule, 1) returns D*86400 + HH*3600 + MM*60 + SS.
C6_ParsesDayTime ==
    ( /\ call.op = "get_runtime"
      /\ call.attempt = 1
      /\ RuntimeValue.t = "str"
      /\ IsDayTime(RuntimeValue.s) )
    => exc = "none" /\ ret = PyInt(DayTimeSeconds(RuntimeValue.s))

\* get_runtime(rule, 1) of the resolved string '1-02:30:00' has returned 95400.
C6_Witness ==
    /\ Returned("get_runtime")
    /\ call.attempt = 1
    /\ RuntimeValue = PyStr(<<"1", "-", "0", "2", ":", "3", "0", ":", "0", "0">>)
    /\ ret = PyInt(95400)

\* C7 as stated: for a resolved runtime string outside the D-HH:MM:SS
\* grammar (day optional), get_runtime(rule, attempt) does not raise and
\* returns the fallback of 3600 seconds scaled for the attempt.
C7_FallbackOutsideGrammar ==
    ( /\ call.op = "get_runtime"
      /\ RuntimeValue.t = "str"
      /\ ~IsDayTime(RuntimeValue.s)
      /\ ~IsTime(RuntimeValue.s) )
    => exc = "none" /\ ret = PyInt((3600 * (call.attempt + 1)) \div 2)

\* C7, amended: for a resolved runtime string that does not split at its
\* ':' and '-' characters into exactly four integer fields,
\* get_runtime(rule, attempt) does not raise and returns the fallback of
\* 3600 seconds scaled for the attempt, int(3600 * (1 + (attempt - 1) / 2)).
C7_FallbackUnlessFourFields ==
    ( /\ call.op = "get_runtime"
      /\ RuntimeValue.t = "str"
      /\ ~HasFourIntFields(RuntimeValue.s) )
    => exc = "none" /\ ret = PyInt((3600 * (call.attempt + 1)) \div 2)

\* get_runtime(rule, 2) of the resolved string '02:30:00' has returned 5400.
C7_Witness ==
    /\ Returned("get_runtime")
    /\ call.attempt = 2
    /\ RuntimeValue = PyStr(<<"0", "2", ":", "3", "0", ":", "0", "0">>)
    /\ ret = PyInt(5400)

====
